---------------------------- MODULE Spec2Model ----------------------------
(***************************************************************************)
(* Model of scripts/sync-tfvars-to-env.py: the terraform.tfvars scanner    *)
(* (parse_tfvars), the value parser (parse_value), the value formatter     *)
(* (format_env_value), the .env codec (read_env_file, write_env_file) and  *)
(* the merge loop of sync_tfvars_to_env.                                   *)
(*                                                                         *)
(* A Python str is a sequence of one-character strings, so the empty str   *)
(* is << >>.  A text file is the sequence of its lines, each without its   *)
(* line terminator.                                                        *)
(***************************************************************************)
EXTENDS Integers, Sequences, FiniteSets

(***************************************************************************)
(* Python str methods used by the script.                                  *)
(***************************************************************************)

\* Characters str.strip() removes (the ones that can occur inside a line).
Whitespace == {" ", "\t"}

\* The character U+0060, which a TLA+ string literal cannot hold.
Backtick == "GRAVE"

\* Printable ASCII in code point order; Ascii[j] has code point j + 31.
Ascii ==
  <<" ","!","\"","#","$","%","&","'","(",")","*","+",",","-",".","/",
    "0","1","2","3","4","5","6","7","8","9",":",";","<","=",">","?",
    "@","A","B","C","D","E","F","G","H","I","J","K","L","M","N","O",
    "P","Q","R","S","T","U","V","W","X","Y","Z","[","\\","]","^","_",
    Backtick,"a","b","c","d","e","f","g","h","i","j","k","l","m","n","o",
    "p","q","r","s","t","u","v","w","x","y","z","{","|","}","~">>

Ord(c) == 31 + (CHOOSE j \in 1..Len(Ascii) : Ascii[j] = c)

IsLowerChar(c) == Ord(c) >= 97 /\ Ord(c) <= 122

IsUpperChar(c) == Ord(c) >= 65 /\ Ord(c) <= 90

IsDigit(c) == Ord(c) >= 48 /\ Ord(c) <= 57

UpperChar(c) == IF IsLowerChar(c) THEN Ascii[Ord(c) - 31 - 32] ELSE c

LowerChar(c) == IF IsUpperChar(c) THEN Ascii[Ord(c) - 31 + 32] ELSE c

\* str.upper()
Upper(s) == [j \in 1..Len(s) |-> UpperChar(s[j])]

\* str.lower()
Lower(s) == [j \in 1..Len(s) |-> LowerChar(s[j])]

MinOf(S) == CHOOSE x \in S : \A y \in S : x <= y

MaxOf(S) == CHOOSE x \in S : \A y \in S : x >= y

\* str.strip()
Strip(s) ==
  LET keep == {j \in 1..Len(s) : s[j] \notin Whitespace}
  IN  IF keep = {} THEN << >> ELSE SubSeq(s, MinOf(keep), MaxOf(keep))

\* str.startswith(p)
StartsWith(s, p) == Len(s) >= Len(p) /\ SubSeq(s, 1, Len(p)) = p

\* str.endswith(p)
EndsWith(s, p) == Len(s) >= Len(p) /\ SubSeq(s, Len(s) - Len(p) + 1, Len(s)) = p

\* c in s, for a single character c
Contains(s, c) == \E j \in 1..Len(s) : s[j] = c

\* str.count(c), for a single character c
Count(s, c) == Cardinality({j \in 1..Len(s) : s[j] = c})

FirstIndex(s, c) == MinOf({j \in 1..Len(s) : s[j] = c})

\* The part before the first c (str.partition(c)[0], str.split(c)[0]).
Before(s, c) == IF Contains(s, c) THEN SubSeq(s, 1, FirstIndex(s, c) - 1) ELSE s

\* The part after the first c (str.partition(c)[2]).
After(s, c) == IF Contains(s, c) THEN SubSeq(s, FirstIndex(s, c) + 1, Len(s)) ELSE << >>

\* s[1:-1]
Inner(s) == SubSeq(s, 2, Len(s) - 1)

\* str.split(c): the pieces between the occurrences of c, empty ones included.
RECURSIVE Split(_, _)
Split(s, c) ==
  IF Contains(s, c) THEN <<Before(s, c)>> \o Split(After(s, c), c) ELSE <<s>>

\* sep.join(parts)
RECURSIVE Join(_, _)
Join(parts, sep) ==
  IF parts = << >> THEN << >>
  ELSE IF Len(parts) = 1 THEN parts[1]
  ELSE parts[1] \o sep \o Join(Tail(parts), sep)

\* str.replace(c, r), for a single character c
RECURSIVE Replace(_, _, _)
Replace(s, c, r) ==
  IF s = << >> THEN << >>
  ELSE (IF Head(s) = c THEN r ELSE <<Head(s)>>) \o Replace(Tail(s), c, r)

\* s < t in Python's str order (code points, a proper prefix first).
RECURSIVE LtStr(_, _)
LtStr(s, t) ==
  IF t = << >> THEN FALSE
  ELSE IF s = << >> THEN TRUE
  ELSE IF Head(s) = Head(t) THEN LtStr(Tail(s), Tail(t))
  ELSE Ord(Head(s)) < Ord(Head(t))

(***************************************************************************)
(* Python values parse_value returns: str, int, float, bool, None, list.   *)
(* A map literal stays a str (the script never builds a dict).             *)
(***************************************************************************)

StrVal(s) == [tag |-> "Str", v |-> s]

IntVal(n) == [tag |-> "Int", v |-> n]

\* A float is kept as the text Python's repr gives it.
FloatVal(t) == [tag |-> "Float", v |-> t]

BoolVal(b) == [tag |-> "Bool", v |-> b]

NoneVal == [tag |-> "Null", v |-> << >>]

ListVal(items) == [tag |-> "List", v |-> items]

(***************************************************************************)
(* int(), float() and str() on the texts the model meets.  Modelled for    *)
(* decimal texts: an optional sign, digits (with single underscores for    *)
(* int) and at most one point.  Exponent forms, "inf" and "nan" with a     *)
(* point, and floats whose repr switches to exponent notation lie outside  *)
(* the modelled inputs.                                                    *)
(***************************************************************************)

Unsigned(s) == IF s # << >> /\ s[1] \in {"+", "-"} THEN Tail(s) ELSE s

\* int(s) succeeds
IsIntText(s) ==
  LET u == Unsigned(s)
  IN  /\ u # << >>
      /\ \A j \in 1..Len(u) : u[j] = "_" \/ IsDigit(u[j])
      /\ u[1] # "_"
      /\ u[Len(u)] # "_"
      /\ \A j \in 1..(Len(u) - 1) : ~(u[j] = "_" /\ u[j + 1] = "_")

RECURSIVE DigitsValue(_, _)
DigitsValue(u, acc) ==
  IF u = << >> THEN acc
  ELSE IF Head(u) = "_" THEN DigitsValue(Tail(u), acc)
  ELSE DigitsValue(Tail(u), 10 * acc + (Ord(Head(u)) - 48))

\* int(s)
IntOf(s) ==
  LET n == DigitsValue(Unsigned(s), 0)
  IN  IF s[1] = "-" THEN 0 - n ELSE n

RECURSIVE NatToStr(_)
NatToStr(n) ==
  IF n < 10 THEN <<Ascii[n + 48 - 31]>>
  ELSE NatToStr(n \div 10) \o <<Ascii[(n % 10) + 48 - 31]>>

\* str(n) for an int n
IntToStr(n) == IF n < 0 THEN <<"-">> \o NatToStr(0 - n) ELSE NatToStr(n)

AllDigits(s) == \A j \in 1..Len(s) : IsDigit(s[j])

\* float(s) succeeds
IsFloatText(s) ==
  LET u == Unsigned(s)
  IN  /\ Count(u, ".") = 1
      /\ AllDigits(Before(u, "."))
      /\ AllDigits(After(u, "."))
      /\ Len(u) >= 2

RECURSIVE DropLeadingZeros(_)
DropLeadingZeros(s) ==
  IF s # << >> /\ Head(s) = "0" THEN DropLeadingZeros(Tail(s)) ELSE s

RECURSIVE DropTrailingZeros(_)
DropTrailingZeros(s) ==
  IF s # << >> /\ s[Len(s)] = "0" THEN DropTrailingZeros(SubSeq(s, 1, Len(s) - 1))
  ELSE s

\* str(float(s))
FloatRepr(s) ==
  LET u  == Unsigned(s)
      ip == DropLeadingZeros(Before(u, "."))
      fp == DropTrailingZeros(After(u, "."))
  IN  (IF s[1] = "-" THEN <<"-">> ELSE << >>)
        \o (IF ip = << >> THEN <<"0">> ELSE ip)
        \o <<".">>
        \o (IF fp = << >> THEN <<"0">> ELSE fp)

\* repr(s) for a str s
ReprStr(s) ==
  LET q    == IF Contains(s, "'") /\ ~Contains(s, "\"") THEN "\"" ELSE "'"
      body == Replace(s, "\\", <<"\\", "\\">>)
  IN  <<q>> \o (IF q = "'" THEN Replace(body, "'", <<"\\", "'">>) ELSE body) \o <<q>>

\* repr(value): what str() of a list shows for each element
RECURSIVE PyRepr(_)
PyRepr(value) ==
  CASE value.tag = "Str"   -> ReprStr(value.v)
    [] value.tag = "Int"   -> IntToStr(value.v)
    [] value.tag = "Float" -> value.v
    [] value.tag = "Bool"  -> IF value.v THEN <<"T","r","u","e">> ELSE <<"F","a","l","s","e">>
    [] value.tag = "Null"  -> <<"N","o","n","e">>
    [] value.tag = "List"  ->
         <<"[">> \o Join([j \in 1..Len(value.v) |-> PyRepr(value.v[j])], <<","," ">>) \o <<"]">>

\* str(value)
PyStr(value) == IF value.tag = "Str" THEN value.v ELSE PyRepr(value)

(***************************************************************************)
(* parse_value                                                             *)
(***************************************************************************)

RECURSIVE parse_value(_)
RECURSIVE ParseItems(_)

\* The loop of parse_value over inner.split(","): empty items are dropped.
ParseItems(pieces) ==
  IF pieces = << >> THEN << >>
  ELSE LET item == Strip(Head(pieces))
       IN  (IF item # << >> THEN <<parse_value(item)>> ELSE << >>)
             \o ParseItems(Tail(pieces))

\* Mutant of parse_value: the quotes are removed before the Bool and Null tests,
\* so a quoted true, false or null is no longer a str.
parse_value_UnquotesFirst(raw) ==
  LET stripped == Strip(raw)
      trimmed == IF EndsWith(stripped, <<",">>)
                 THEN Strip(SubSeq(stripped, 1, Len(stripped) - 1))
                 ELSE stripped
      quoted == StartsWith(trimmed, <<"\"">>) /\ EndsWith(trimmed, <<"\"">>)
      value == IF quoted THEN Inner(trimmed) ELSE trimmed
  IN  IF Lower(value) = <<"t","r","u","e">> THEN BoolVal(TRUE)
      ELSE IF Lower(value) = <<"f","a","l","s","e">> THEN BoolVal(FALSE)
      ELSE IF Lower(value) = <<"n","u","l","l">> THEN NoneVal
      ELSE IF quoted THEN StrVal(value)
      ELSE IF Contains(value, ".") /\ IsFloatText(value) THEN FloatVal(FloatRepr(value))
      ELSE IF ~Contains(value, ".") /\ IsIntText(value) THEN IntVal(IntOf(value))
      ELSE IF StartsWith(value, <<"[">>) /\ EndsWith(value, <<"]">>)
           THEN IF Strip(Inner(value)) = << >> THEN ListVal(<< >>)
                ELSE ListVal(ParseItems(Split(Strip(Inner(value)), ",")))
      ELSE StrVal(value)

parse_value(raw) ==
  LET stripped == Strip(raw)
      value == IF EndsWith(stripped, <<",">>)
               THEN Strip(SubSeq(stripped, 1, Len(stripped) - 1))
               ELSE stripped
  IN  IF Lower(value) = <<"t","r","u","e">> THEN BoolVal(TRUE)
      ELSE IF Lower(value) = <<"f","a","l","s","e">> THEN BoolVal(FALSE)
      ELSE IF Lower(value) = <<"n","u","l","l">> THEN NoneVal
      ELSE IF StartsWith(value, <<"\"">>) /\ EndsWith(value, <<"\"">>) THEN StrVal(Inner(value))
      ELSE IF Contains(value, ".") /\ IsFloatText(value) THEN FloatVal(FloatRepr(value))
      ELSE IF ~Contains(value, ".") /\ IsIntText(value) THEN IntVal(IntOf(value))
      ELSE IF StartsWith(value, <<"[">>) /\ EndsWith(value, <<"]">>)
           THEN IF Strip(Inner(value)) = << >> THEN ListVal(<< >>)
                ELSE ListVal(ParseItems(Split(Strip(Inner(value)), ",")))
      ELSE IF StartsWith(value, <<"{">>) /\ EndsWith(value, <<"}">>) THEN StrVal(value)
      ELSE StrVal(value)

(***************************************************************************)
(* format_env_value                                                        *)
(***************************************************************************)

\* The characters that make format_env_value quote a str.
SpecialChars == {"$", "\"", "'", Backtick, "\\"}

NeedsQuoting(s) == Contains(s, " ") \/ \E c \in SpecialChars : Contains(s, c)

\* str_value.replace("\\", "\\\\").replace('"', '\\"') between double quotes
QuoteStr(s) ==
  <<"\"">> \o Replace(Replace(s, "\\", <<"\\", "\\">>), "\"", <<"\\", "\"">>) \o <<"\"">>

\* The str branch of format_env_value.
FormatStr(s) == IF NeedsQuoting(s) THEN QuoteStr(s) ELSE s

\* The list branch of format_env_value: ",".join(str(v) for v in value)
FormatList(items) == Join([j \in 1..Len(items) |-> PyStr(items[j])], <<",">>)

format_env_value(value) ==
  CASE value.tag = "Null"  -> << >>
    [] value.tag = "Bool"  -> IF value.v THEN <<"t","r","u","e">> ELSE <<"f","a","l","s","e">>
    [] value.tag = "Int"   -> IntToStr(value.v)
    [] value.tag = "Float" -> value.v
    [] value.tag = "List"  -> FormatList(value.v)
    [] value.tag = "Str"   -> FormatStr(value.v)

(***************************************************************************)
(* parse_tfvars: the scanner.  Its state is the cursor i (0-based, as in   *)
(* the script), the dict being built, and, inside a multi-line value, the  *)
(* key, the collected lines and the bracket counter.  A dict is kept as    *)
(* the sequence of its items in insertion order.  The field used records   *)
(* which lines the continuation loop has read; the script does not keep    *)
(* it, the properties below speak about it.                                *)
(***************************************************************************)

\* d[key] = value on a dict: a present key keeps its place.
DictSet(d, key, value) ==
  IF \E j \in 1..Len(d) : d[j].key = key
  THEN [j \in 1..Len(d) |-> IF d[j].key = key THEN [key |-> key, value |-> value] ELSE d[j]]
  ELSE Append(d, [key |-> key, value |-> value])

DictKeys(d) == {d[j].key : j \in 1..Len(d)}

\* not line or line.startswith("#") or line.startswith("//")
IsCommentOrBlank(line) ==
  line = << >> \/ StartsWith(line, <<"#">>) \/ StartsWith(line, <<"/","/">>)

\* The key of an assignment line: the text before the first "=".
LineKey(line) == Strip(Before(line, "="))

\* Its value: the text after the first "=", cut at the first "#".
LineValue(line) ==
  LET value == Strip(After(line, "="))
  IN  IF Contains(value, "#") THEN Strip(Before(value, "#")) ELSE value

\* value.endswith("{") or value.endswith("[")
OpensMultiLine(value) == EndsWith(value, <<"{">>) \/ EndsWith(value, <<"[">>)

\* Opening minus closing brackets of one line.
BracketDelta(s) == (Count(s, "{") + Count(s, "[")) - (Count(s, "}") + Count(s, "]"))

ScanInit ==
  [mode |-> "idle", i |-> 0, variables |-> << >>, key |-> << >>,
   multi_value |-> << >>, bracket_count |-> 0, used |-> {}]

\* A comment or blank line at the top level: i += 1; continue
SkipLine(st) == [st EXCEPT !.i = st.i + 1]

\* A line without "=": nothing but the final i += 1
IgnoreLine(st) == [st EXCEPT !.i = st.i + 1]

\* A one-line assignment: variables[key] = parse_value(value); i += 1
AssignLine(st, line) ==
  [st EXCEPT !.variables = DictSet(st.variables, LineKey(line), parse_value(LineValue(line))),
             !.i = st.i + 1]

\* The first line of a multi-line value: start collecting, i += 1, seed the counter.
OpenMulti(st, line) ==
  [st EXCEPT !.mode = "cont",
             !.key = LineKey(line),
             !.multi_value = <<LineValue(line)>>,
             !.bracket_count = BracketDelta(LineValue(line)),
             !.used = st.used \cup {st.i},
             !.i = st.i + 1]

\* One turn of the continuation loop on the stripped line next_line.
ContLine(st, next_line) ==
  IF next_line # << >> /\ ~StartsWith(next_line, <<"#">>)
  THEN [st EXCEPT !.multi_value = Append(st.multi_value, next_line),
                  !.bracket_count = st.bracket_count + BracketDelta(next_line),
                  !.used = st.used \cup {st.i},
                  !.i = st.i + 1]
  ELSE [st EXCEPT !.used = st.used \cup {st.i}, !.i = st.i + 1]

\* After the continuation loop: join, parse, store, and the final i += 1.
CloseMulti(st) ==
  [st EXCEPT !.mode = "idle",
             !.variables = DictSet(st.variables, st.key,
                                   parse_value(Join(st.multi_value, <<" ">>))),
             !.multi_value = << >>,
             !.bracket_count = 0,
             !.key = << >>,
             !.i = st.i + 1]

\* The continuation loop's condition: i < len(lines) and bracket_count > 0
ContLoopRuns(st, lines) == st.i < Len(lines) /\ st.bracket_count > 0

\* One step of parse_tfvars on the file lines.
ScanStep(st, lines) ==
  IF st.mode = "cont"
  THEN IF ContLoopRuns(st, lines)
       THEN ContLine(st, Strip(lines[st.i + 1]))
       ELSE CloseMulti(st)
  ELSE IF st.i >= Len(lines) THEN [st EXCEPT !.mode = "done"]
  ELSE LET line == Strip(lines[st.i + 1])
       IN  IF IsCommentOrBlank(line) THEN SkipLine(st)
           ELSE IF Contains(line, "=")
                THEN IF OpensMultiLine(LineValue(line))
                     THEN OpenMulti(st, line)
                     ELSE AssignLine(st, line)
           ELSE IgnoreLine(st)

RECURSIVE ScanFrom(_, _)
ScanFrom(st, lines) ==
  IF st.mode = "done" THEN st ELSE ScanFrom(ScanStep(st, lines), lines)

\* parse_tfvars on an existing file: the dict it returns.
parse_tfvars(lines) == ScanFrom(ScanInit, lines).variables

(***************************************************************************)
(* read_env_file and write_env_file.  An env dict is a function from keys  *)
(* to values: write_env_file sorts the keys, so its order never shows.     *)
(***************************************************************************)

EmptyEnv == [x \in {} |-> << >>]

\* env_vars[key] = value
EnvSet(env, key, value) ==
  [x \in (DOMAIN env) \cup {key} |-> IF x = key THEN value ELSE env[x]]

\* One layer of matching quotes around a value is removed.
Unquote(value) ==
  IF \/ StartsWith(value, <<"\"">>) /\ EndsWith(value, <<"\"">>)
     \/ StartsWith(value, <<"'">>) /\ EndsWith(value, <<"'">>)
  THEN Inner(value)
  ELSE value

\* The body of read_env_file's loop for one line.
ReadEnvLine(env, raw) ==
  LET line == Strip(raw)
  IN  IF line = << >> \/ StartsWith(line, <<"#">>) THEN env
      ELSE IF Contains(line, "=")
           THEN EnvSet(env, Strip(Before(line, "=")), Unquote(Strip(After(line, "="))))
      ELSE env

RECURSIVE ReadEnvLines(_, _)
ReadEnvLines(env, lines) ==
  IF lines = << >> THEN env
  ELSE ReadEnvLines(ReadEnvLine(env, Head(lines)), Tail(lines))

read_env_file(exists, lines) == IF exists THEN ReadEnvLines(EmptyEnv, lines) ELSE EmptyEnv

\* Mutant of SortedKeys: sorted(keys, reverse=True).
RECURSIVE SortedKeysDescending(_)
SortedKeysDescending(keys) ==
  IF keys = {} THEN << >>
  ELSE LET first == CHOOSE x \in keys : \A y \in keys \ {x} : LtStr(y, x)
       IN  <<first>> \o SortedKeysDescending(keys \ {first})

\* sorted(keys)
RECURSIVE SortedKeys(_)
SortedKeys(keys) ==
  IF keys = {} THEN << >>
  ELSE LET first == CHOOSE x \in keys : \A y \in keys \ {x} : LtStr(x, y)
       IN  <<first>> \o SortedKeys(keys \ {first})

\* f"{key}={value}"
EntryLine(key, value) == key \o <<"=">> \o value

\* tfvars_file.name: the script's default source is bootstrap/terraform.tfvars.
SourceName == <<"t","e","r","r","a","f","o","r","m",".","t","f","v","a","r","s">>

\* The header sync_tfvars_to_env generates, line by line.
Header ==
  << <<"#"," ","E","n","v","i","r","o","n","m","e","n","t"," ","v","a","r","i","a","b","l","e","s"," ","s","y","n","c","e","d"," ","f","r","o","m"," ">> \o SourceName,
     <<"#"," ","G","e","n","e","r","a","t","e","d"," ","b","y"," ","s","y","n","c","-","t","f","v","a","r","s","-","t","o","-","e","n","v",".","p","y">>,
     <<"#"," ","D","O"," ","N","O","T"," ","E","D","I","T"," ","T","H","I","S"," ","F","I","L","E"," ","M","A","N","U","A","L","L","Y"," ","-"," ","C","h","a","n","g","e","s"," ","w","i","l","l"," ","b","e"," ","o","v","e","r","w","r","i","t","t","e","n">>,
     <<"#">>,
     <<"#"," ","T","o"," ","u","p","d","a","t","e",":"," ","m","a","k","e"," ","s","y","n","c","-","e","n","v"," ","o","r"," ","r","u","n"," ","s","c","r","i","p","t","s","/","s","y","n","c","-","t","f","v","a","r","s","-","t","o","-","e","n","v",".","p","y">> >>

\* The lines write_env_file leaves in the file: header, "\n\n", sorted entries.
write_env_file(variables, header) ==
  LET keys == SortedKeys(DOMAIN variables)
  IN  (IF header # << >> THEN header \o << << >> >> ELSE << >>)
        \o [j \in 1..Len(keys) |-> EntryLine(keys[j], variables[keys[j]])]

(***************************************************************************)
(* The merge loop of sync_tfvars_to_env.                                   *)
(***************************************************************************)

\* f"{prefix}{key.upper()}"
EnvKey(pre, key) == pre \o Upper(key)

\* Mutant of MergePair: a present key counts as updated without comparing values.
MergePairCountsPresentKeys(m, env_key, env_value) ==
  [env_vars      |-> EnvSet(m.env_vars, env_key, env_value),
   updated_count |-> IF env_key \in DOMAIN m.env_vars
                     THEN m.updated_count + 1
                     ELSE m.updated_count,
   new_count     |-> IF env_key \in DOMAIN m.env_vars
                     THEN m.new_count
                     ELSE m.new_count + 1]

\* Mutant of MergePair: a present key whose value changes is counted as new as
\* well as updated.
MergePairCountsChangedAsNew(m, env_key, env_value) ==
  [env_vars      |-> EnvSet(m.env_vars, env_key, env_value),
   updated_count |-> IF env_key \in DOMAIN m.env_vars /\ m.env_vars[env_key] # env_value
                     THEN m.updated_count + 1
                     ELSE m.updated_count,
   new_count     |-> IF env_key \in DOMAIN m.env_vars /\ m.env_vars[env_key] = env_value
                     THEN m.new_count
                     ELSE m.new_count + 1]

\* The loop body for one (env_key, env_value): count, then store.
MergePair(m, env_key, env_value) ==
  [env_vars      |-> EnvSet(m.env_vars, env_key, env_value),
   updated_count |-> IF env_key \in DOMAIN m.env_vars /\ m.env_vars[env_key] # env_value
                     THEN m.updated_count + 1
                     ELSE m.updated_count,
   new_count     |-> IF env_key \in DOMAIN m.env_vars
                     THEN m.new_count
                     ELSE m.new_count + 1]

\* Mutant of InitialEnv: the destination is read even when overwriting.
InitialEnvIgnoresOverwrite(o, exists, lines) == read_env_file(exists, lines)

\* env_vars = {} if overwrite else read_env_file(env_file)
InitialEnv(o, exists, lines) == IF o THEN EmptyEnv ELSE read_env_file(exists, lines)

(***************************************************************************)
(* Inputs.                                                                 *)
(***************************************************************************)

\* Most lines of a source file, of a destination file; most runs in a row.
MaxSrcLines == 2

MaxDestLines == 1

MaxRuns == 2

\* Most lines of a file given to the scanner alone.
MaxScanLines == 4

SeqsUpTo(S, n) == UNION {[1..m -> S] : m \in 0..n}

\* Lines of the source files the sync runs read.
SrcLinePool ==
  { <<"r","e","g","i","o","n"," ","="," ","\"","u","s","-","e","a","s","t","-","1","\"">>,
    <<"R","e","g","i","o","n"," ","="," ","\"","a"," ","b","\"">>,
    <<"t","a","g","s"," ","="," ","[","\"","a","\"",","," ","\"","b","\"","]">>,
    <<"f","l","a","g","s"," ","="," ","[","t","r","u","e",","," ","n","u","l","l","]">> }

\* Lines of the destination file before the first run.
DestLinePool ==
  { <<"R","E","G","I","O","N","=","u","s","-","w","e","s","t","-","2">>,
    <<"K","E","E","P","=","\"","a"," ","b","\"">>,
    <<"O","T","H","E","R","=","x">> }

\* Most items of a list literal given to parse_value alone.
MaxListItems == 2

\* Texts of single values and list items given to parse_value alone.
ItemPool ==
  { <<"t","r","u","e">>, <<"F","a","l","s","e">>, <<"N","U","L","L">>, <<"\"","t","r","u","e","\"">>, <<"\"","a"," ","b","\"">>, <<"\"">>, <<"1">>, <<"-","5">>, <<"1",".","5","0">>, <<"1",".","2",".","3">>,
    <<"1","e","5">>, <<"{","a"," ","="," ","1","}">>, <<"x">>, <<"[","1">>, <<"[","1","]">>, << >> }

\* List literals: up to MaxListItems items between brackets.
ListPool == { <<"[">> \o Join(items, <<","," ">>) \o <<"]">> : items \in SeqsUpTo(ItemPool, MaxListItems) }

\* Every text of the two pools, bare, with leading space, with a trailing comma.
ValuePool ==
  { lead \o core \o trail :
      lead \in { << >>, <<" ">> }, core \in ItemPool \cup ListPool, trail \in { << >>, <<",">>, <<" ",","," ">> } }

\* Lines of the files the scanner is run on by itself.
ScanLinePool ==
  { <<"a"," ","="," ","1">>,
    <<"t"," ","="," ","[">>,
    <<"\"","x","\"",",">>,
    <<"]">>,
    <<"/","/"," ","]">>,
    <<"#"," ","c">>,
    <<" ">>,
    <<"j","u","n","k">> }

PrefixPool == { << >>, <<"A","P","P","_">> }

(***************************************************************************)
(* State.                                                                  *)
(***************************************************************************)

VARIABLES
  srcExists,      \* the source path names a file
  srcLines,       \* its lines
  destExists,     \* the destination path names a file
  destLines,      \* its lines
  prefix,         \* --prefix
  overwrite,      \* --overwrite of the current or last run
  pc,             \* "idle" between runs, "merge" inside the merge loop, "scan" for the scanner alone
  scan,           \* the scanner's state
  tfvars,         \* the dict parse_tfvars returned
  k,              \* how many items of tfvars the merge loop has processed
  env_vars,       \* the working dict
  updated_count,
  new_count,
  outcome,        \* how the last run ended: "none", "ok" or "SourceNotFound"
  exit_code,      \* the process exit status of the last run
  summary,        \* the counts the last successful run printed
  runs,           \* runs finished so far
  destBefore,     \* the destination file as the current or last run found it
  prev,           \* outcome and overwrite of the run before the current or last one
  input,          \* the text given to parse_value when it is called by itself
  parsed          \* what that call returned

vars ==
  <<srcExists, srcLines, destExists, destLines, prefix, overwrite, pc, scan, tfvars, k,
    env_vars, updated_count, new_count, outcome, exit_code, summary, runs, destBefore, prev,
    input, parsed>>

fileVars == <<srcExists, srcLines, destExists, destLines>>

mergeVars == <<tfvars, k, env_vars, updated_count, new_count>>

valueVars == <<input, parsed>>

\* No call of parse_value by itself has returned yet.
NotParsed == [tag |-> "NotParsed", v |-> << >>]

NoSummary == [new |-> 0, updated |-> 0, total |-> 0]

RunDefaults ==
  /\ overwrite = FALSE
  /\ scan = ScanInit
  /\ tfvars = << >>
  /\ k = 0
  /\ env_vars = EmptyEnv
  /\ updated_count = 0
  /\ new_count = 0
  /\ outcome = "none"
  /\ exit_code = 0
  /\ summary = NoSummary
  /\ runs = 0
  /\ destBefore = [exists |-> FALSE, lines |-> << >>]
  /\ prev = [outcome |-> "none", overwrite |-> FALSE]
  /\ parsed = NotParsed

Init ==
  /\ srcExists \in BOOLEAN
  /\ srcLines \in (IF srcExists THEN SeqsUpTo(SrcLinePool, MaxSrcLines) ELSE {<< >>})
  /\ destExists \in BOOLEAN
  /\ destLines \in (IF destExists THEN SeqsUpTo(DestLinePool, MaxDestLines) ELSE {<< >>})
  /\ prefix \in PrefixPool
  /\ pc = "idle"
  /\ input = << >>
  /\ RunDefaults

(***************************************************************************)
(* sync_tfvars_to_env, as main() calls it.                                 *)
(***************************************************************************)

\* Mutant of SyncSourceNotFound: the destination is opened for writing before the
\* source is parsed, so the failed run leaves it truncated.
SyncSourceNotFoundTruncating(o) ==
  /\ pc = "idle"
  /\ runs < MaxRuns
  /\ ~srcExists
  /\ overwrite' = o
  /\ destBefore' = [exists |-> destExists, lines |-> destLines]
  /\ prev' = [outcome |-> outcome, overwrite |-> overwrite]
  /\ outcome' = "SourceNotFound"
  /\ exit_code' = 1
  /\ runs' = runs + 1
  /\ destExists' = TRUE
  /\ destLines' = << >>
  /\ UNCHANGED <<srcExists, srcLines, prefix, valueVars, pc, scan, mergeVars, summary>>

\* parse_tfvars cannot open the source: it prints the error and exits with 1.
SyncSourceNotFound(o) ==
  /\ pc = "idle"
  /\ runs < MaxRuns
  /\ ~srcExists
  /\ overwrite' = o
  /\ destBefore' = [exists |-> destExists, lines |-> destLines]
  /\ prev' = [outcome |-> outcome, overwrite |-> overwrite]
  /\ outcome' = "SourceNotFound"
  /\ exit_code' = 1
  /\ runs' = runs + 1
  /\ UNCHANGED <<fileVars, prefix, valueVars, pc, scan, mergeVars, summary>>

\* The run up to the merge loop: parse the source, read or skip the destination.
SyncStart(o) ==
  /\ pc = "idle"
  /\ runs < MaxRuns
  /\ srcExists
  /\ overwrite' = o
  /\ destBefore' = [exists |-> destExists, lines |-> destLines]
  /\ prev' = [outcome |-> outcome, overwrite |-> overwrite]
  /\ scan' = ScanFrom(ScanInit, srcLines)
  /\ tfvars' = parse_tfvars(srcLines)
  /\ env_vars' = InitialEnv(o, destExists, destLines)
  /\ updated_count' = 0
  /\ new_count' = 0
  /\ k' = 0
  /\ outcome' = "none"
  /\ pc' = "merge"
  /\ UNCHANGED <<fileVars, prefix, valueVars, exit_code, summary, runs>>

\* One turn of the loop over tfvars.items().
MergeStep ==
  /\ pc = "merge"
  /\ k < Len(tfvars)
  /\ LET item == tfvars[k + 1]
         m    == MergePair([env_vars |-> env_vars, updated_count |-> updated_count,
                            new_count |-> new_count],
                           EnvKey(prefix, item.key), format_env_value(item.value))
     IN  /\ env_vars' = m.env_vars
         /\ updated_count' = m.updated_count
         /\ new_count' = m.new_count
  /\ k' = k + 1
  /\ UNCHANGED <<fileVars, prefix, valueVars, overwrite, pc, scan, tfvars, outcome, exit_code,
                 summary, runs, destBefore, prev>>

\* After the loop: write the destination and print the summary.
SyncWrite ==
  /\ pc = "merge"
  /\ k = Len(tfvars)
  /\ destExists' = TRUE
  /\ destLines' = write_env_file(env_vars, Header)
  /\ summary' = [new |-> new_count, updated |-> updated_count,
                 total |-> Cardinality(DOMAIN env_vars)]
  /\ outcome' = "ok"
  /\ exit_code' = 0
  /\ runs' = runs + 1
  /\ pc' = "idle"
  /\ UNCHANGED <<srcExists, srcLines, prefix, valueVars, overwrite, scan, mergeVars, destBefore, prev>>

Next ==
  \/ \E o \in BOOLEAN : SyncSourceNotFound(o)
  \/ \E o \in BOOLEAN : SyncStart(o)
  \/ MergeStep
  \/ SyncWrite

Spec == Init /\ [][Next]_vars

(***************************************************************************)
(* parse_tfvars alone, one step of its loops at a time.                    *)
(***************************************************************************)

InitScan ==
  /\ srcExists = TRUE
  /\ srcLines \in SeqsUpTo(ScanLinePool, MaxScanLines)
  /\ destExists = FALSE
  /\ destLines = << >>
  /\ prefix = << >>
  /\ pc = "scan"
  /\ input = << >>
  /\ RunDefaults

\* A turn of the outer loop.
ScanLine ==
  /\ pc = "scan"
  /\ scan.mode = "idle"
  /\ scan.i < Len(srcLines)
  /\ scan' = ScanStep(scan, srcLines)
  /\ UNCHANGED <<fileVars, prefix, valueVars, overwrite, pc, mergeVars, outcome, exit_code,
                 summary, runs, destBefore, prev>>

\* A turn of the continuation loop, or the statements after it.
ScanContinue ==
  /\ pc = "scan"
  /\ scan.mode = "cont"
  /\ scan' = ScanStep(scan, srcLines)
  /\ UNCHANGED <<fileVars, prefix, valueVars, overwrite, pc, mergeVars, outcome, exit_code,
                 summary, runs, destBefore, prev>>

\* The outer loop ends: return variables.
ScanReturn ==
  /\ pc = "scan"
  /\ scan.mode = "idle"
  /\ scan.i >= Len(srcLines)
  /\ scan' = ScanStep(scan, srcLines)
  /\ UNCHANGED <<fileVars, prefix, valueVars, overwrite, pc, mergeVars, outcome, exit_code,
                 summary, runs, destBefore, prev>>

NextScan == ScanLine \/ ScanContinue \/ ScanReturn

SpecScan == InitScan /\ [][NextScan]_vars

(***************************************************************************)
(* parse_value alone, on one text.                                         *)
(***************************************************************************)

InitValue ==
  /\ srcExists = FALSE
  /\ srcLines = << >>
  /\ destExists = FALSE
  /\ destLines = << >>
  /\ prefix = << >>
  /\ pc = "value"
  /\ input \in ValuePool
  /\ RunDefaults

\* The call parse_value(input) returns.
ParseValueCall ==
  /\ pc = "value"
  /\ parsed = NotParsed
  /\ parsed' = parse_value(input)
  /\ UNCHANGED <<fileVars, prefix, input, overwrite, pc, scan, mergeVars, outcome, exit_code,
                 summary, runs, destBefore, prev>>

NextValue == ParseValueCall

SpecValue == InitValue /\ [][NextValue]_vars

(***************************************************************************)
(* Vocabulary of the properties.                                           *)
(***************************************************************************)

\* A run has just ended successfully.
RunOk == pc = "idle" /\ outcome = "ok"

\* A line of a destination file that holds an entry KEY=VALUE.
IsDestEntry(raw) ==
  LET line == Strip(raw)
  IN  line # << >> /\ ~StartsWith(line, <<"#">>) /\ Contains(line, "=")

EntryKeyOf(raw) == Strip(Before(Strip(raw), "="))

\* The text after "=", quotes included.
EntryTextOf(raw) == Strip(After(Strip(raw), "="))

\* The keys of the entries of a file.
FileKeys(lines) == {EntryKeyOf(lines[j]) : j \in {i \in 1..Len(lines) : IsDestEntry(lines[i])}}

\* The destination key of the j-th parsed source variable, and its formatted value.
TargetKey(j) == EnvKey(prefix, tfvars[j].key)

TargetValue(j) == format_env_value(tfvars[j].value)

\* { prefix + upper(k) : k a key parsed from the source }
SourceTargets == {TargetKey(j) : j \in 1..Len(tfvars)}

\* C1: two successful runs in a row with overwrite=false, the same prefix and the
\* unchanged source: the second run reports updatedCount == 0 and leaves the
\* destination file exactly as the first run wrote it.
SyncTwiceIdempotent ==
  (RunOk /\ ~overwrite /\ prev.outcome = "ok" /\ ~prev.overwrite)
    => (summary.updated = 0 /\ destExists /\ destLines = destBefore.lines)

\* C2: after a successful run with overwrite=false, every entry the destination
\* held before the run under a key that no source key maps to is still there,
\* with the same text after "=" (quotes included).
MergeKeepsForeignEntries ==
  (RunOk /\ ~overwrite) =>
    \A j \in 1..Len(destBefore.lines) :
      (IsDestEntry(destBefore.lines[j]) /\ EntryKeyOf(destBefore.lines[j]) \notin SourceTargets)
        => \E m \in 1..Len(destLines) :
             /\ IsDestEntry(destLines[m])
             /\ EntryKeyOf(destLines[m]) = EntryKeyOf(destBefore.lines[j])
             /\ EntryTextOf(destLines[m]) = EntryTextOf(destBefore.lines[j])

\* C3: a run on a missing source ends in the error outcome with a non-zero exit
\* status and leaves the destination as it found it, whatever overwrite is; a
\* run writes nothing before its merge is complete, and what a successful run
\* leaves is the whole file: header, blank line, one line per key.
SourceNotFoundLeavesDest ==
  /\ (~srcExists /\ runs > 0) => outcome = "SourceNotFound"
  /\ outcome = "SourceNotFound" =>
       /\ exit_code # 0
       /\ destExists = destBefore.exists
       /\ destLines = destBefore.lines
  /\ pc = "merge" =>
       /\ destExists = destBefore.exists
       /\ destLines = destBefore.lines
  /\ RunOk => Len(destLines) = Len(Header) + 1 + Cardinality(DOMAIN env_vars)

\* C3 witness: a second failed run, with overwrite=true after one with
\* overwrite=false, on a destination that holds an entry.
SourceNotFoundReached ==
  /\ outcome = "SourceNotFound"
  /\ runs = 2
  /\ overwrite
  /\ ~prev.overwrite
  /\ destExists
  /\ destLines = << <<"R","E","G","I","O","N","=","u","s","-","w","e","s","t","-","2">> >>

\* The last source variable that maps to the destination key.
LastFor(key) == MaxOf({j \in 1..Len(tfvars) : TargetKey(j) = key})

\* Source variables whose destination key an earlier variable of the same run
\* already produced, with a different formatted value just before them.
CollisionUpdates ==
  {j \in 1..Len(tfvars) :
     /\ \E i \in 1..(j - 1) : TargetKey(i) = TargetKey(j)
     /\ TargetValue(MaxOf({i \in 1..(j - 1) : TargetKey(i) = TargetKey(j)})) # TargetValue(j)}

\* C4 as stated: after a successful run with overwrite=true the keys of the
\* destination file are exactly the source's destination keys, updatedCount is 0
\* and totalCount equals newCount.
OverwriteNeverUpdates ==
  (RunOk /\ overwrite) =>
    /\ FileKeys(destLines) = SourceTargets
    /\ summary.updated = 0
    /\ summary.total = summary.new

\* C4 amended: after a successful run with overwrite=true the keys of the
\* destination file are exactly the source's destination keys, each with the
\* formatted value of the last source variable that maps to it (so no prior
\* entry survives unless the source re-supplies it), totalCount equals newCount,
\* and updatedCount counts the source variables whose destination key an earlier
\* variable of the same run produced with a different formatted value.
OverwriteStartsEmpty ==
  (RunOk /\ overwrite) =>
    /\ FileKeys(destLines) = SourceTargets
    /\ \A j \in (Len(Header) + 2)..Len(destLines) :
         /\ IsDestEntry(destLines[j])
         /\ destLines[j] = EntryLine(EntryKeyOf(destLines[j]),
                                     TargetValue(LastFor(EntryKeyOf(destLines[j]))))
    /\ Len(destLines) = Len(Header) + 1 + Cardinality(SourceTargets)
    /\ summary.total = summary.new
    /\ summary.updated = Cardinality(CollisionUpdates)

\* C4 witness: an overwriting run that dropped a prior entry the source does not
\* supply and counted one update from two source keys that collapse to one.
OverwriteDroppedAndCollided ==
  /\ RunOk
  /\ overwrite
  /\ summary.updated = 1
  /\ \E j \in 1..Len(destBefore.lines) :
       /\ IsDestEntry(destBefore.lines[j])
       /\ EntryKeyOf(destBefore.lines[j]) \notin FileKeys(destLines)

\* The pair the merge loop is about to process.
PendingKey == TargetKey(k + 1)

PendingValue == TargetValue(k + 1)

\* Scenario E: REGION=us-west-2 in the destination, region = "us-east-1" in the
\* source, no prefix, overwrite=false, and the run has ended successfully.
ScenarioE ==
  /\ RunOk
  /\ ~overwrite
  /\ prefix = << >>
  /\ srcLines = << <<"r","e","g","i","o","n"," ","="," ","\"","u","s","-","e","a","s","t","-","1","\"">> >>
  /\ destBefore.exists
  /\ destBefore.lines = << <<"R","E","G","I","O","N","=","u","s","-","w","e","s","t","-","2">> >>

\* C5: each turn of the merge loop takes the next pair in source order; an absent
\* key adds 1 to newCount only and is inserted, a present key with a different
\* value adds 1 to updatedCount only and is overwritten, a present key with the
\* same value changes no counter and no stored value; the totalCount reported is
\* the size of the working map; scenario E reports updatedCount == 1 and leaves
\* REGION=us-east-1.
MergeCounting ==
  /\ [][(pc = "merge" /\ k < Len(tfvars)) =>
          /\ k' = k + 1
          /\ PendingKey \notin DOMAIN env_vars =>
               /\ new_count' = new_count + 1
               /\ updated_count' = updated_count
               /\ env_vars' = EnvSet(env_vars, PendingKey, PendingValue)
          /\ (PendingKey \in DOMAIN env_vars /\ env_vars[PendingKey] # PendingValue) =>
               /\ updated_count' = updated_count + 1
               /\ new_count' = new_count
               /\ env_vars' = [env_vars EXCEPT ![PendingKey] = PendingValue]
          /\ (PendingKey \in DOMAIN env_vars /\ env_vars[PendingKey] = PendingValue) =>
               /\ updated_count' = updated_count
               /\ new_count' = new_count
               /\ env_vars' = env_vars]_vars
  /\ [](RunOk =>
          /\ summary.total = Cardinality(DOMAIN env_vars)
          /\ summary.new = new_count
          /\ summary.updated = updated_count
          /\ k = Len(tfvars))
  /\ [](ScenarioE =>
          /\ summary.updated = 1
          /\ \E j \in 1..Len(destLines) : destLines[j] = <<"R","E","G","I","O","N","=","u","s","-","e","a","s","t","-","1">>)

\* C5 witness: scenario E has run, and the run counted one update and nothing new.
ScenarioEReached == ScenarioE /\ summary = [new |-> 0, updated |-> 1, total |-> 1]

\* C6: after a successful run the destination file is the header, one blank
\* line, then one KEY=VALUE line per key of the working map and no other line,
\* the keys strictly ascending in code point order.
SortedOutput ==
  RunOk =>
    LET h == Len(Header)
        n == Cardinality(DOMAIN env_vars)
    IN  /\ Len(destLines) = h + 1 + n
        /\ SubSeq(destLines, 1, h) = Header
        /\ destLines[h + 1] = << >>
        /\ \A j \in 1..n :
             /\ Before(destLines[h + 1 + j], "=") \in DOMAIN env_vars
             /\ destLines[h + 1 + j]
                  = EntryLine(Before(destLines[h + 1 + j], "="),
                              env_vars[Before(destLines[h + 1 + j], "=")])
        /\ \A j \in 1..(n - 1) :
             LtStr(Before(destLines[h + 1 + j], "="), Before(destLines[h + 2 + j], "="))

\* C6 witness: a successful run wrote several entries whose keys the source
\* supplied in an order that is not the ascending one.
SortedOutputOfUnsortedSource ==
  /\ RunOk
  /\ Cardinality(DOMAIN env_vars) >= 2
  /\ \E i \in 1..Len(tfvars) : \E j \in 1..Len(tfvars) :
       i < j /\ LtStr(TargetKey(j), TargetKey(i))

\* The text between the quotes of a quoted value, with the escapes undone.
RECURSIVE Unescape(_)
Unescape(s) ==
  IF s = << >> THEN << >>
  ELSE IF Head(s) = "\\" /\ Len(s) >= 2 /\ s[2] \in {"\\", "\""}
       THEN <<s[2]>> \o Unescape(Tail(Tail(s)))
  ELSE <<Head(s)>> \o Unescape(Tail(s))

\* The value text follows the quoting rule: bare without a space or special
\* character, or the double-quoted, escaped form of a text that has one.
FollowsQuotingRule(text) ==
  \/ ~NeedsQuoting(text)
  \/ /\ Len(text) >= 2
     /\ StartsWith(text, <<"\"">>)
     /\ EndsWith(text, <<"\"">>)
     /\ NeedsQuoting(Unescape(Inner(text)))
     /\ QuoteStr(Unescape(Inner(text))) = text

\* C7: every entry line a successful run leaves in the destination file follows
\* the quoting rule, whatever kind of value it came from, carried-over entries
\* included.
EveryEntryFollowsQuotingRule ==
  RunOk =>
    \A j \in (Len(Header) + 2)..Len(destLines) :
      FollowsQuotingRule(After(destLines[j], "="))

\* The table's rules applied to a value, list elements included.
RECURSIVE FormatByTable(_)
FormatByTable(value) ==
  CASE value.tag = "Null"  -> << >>
    [] value.tag = "Bool"  -> IF value.v THEN <<"t","r","u","e">> ELSE <<"f","a","l","s","e">>
    [] value.tag = "Int"   -> IntToStr(value.v)
    [] value.tag = "Float" -> value.v
    [] value.tag = "Str"   -> FormatStr(value.v)
    [] value.tag = "List"  ->
         Join([j \in 1..Len(value.v) |-> FormatByTable(value.v[j])], <<",">>)

\* C8: format_env_value of a list is its elements' texts under the table's
\* rules, joined with ",".
ListFormatIsRecursive ==
  \A j \in 1..Len(tfvars) :
    tfvars[j].value.tag = "List" =>
      format_env_value(tfvars[j].value) = FormatByTable(tfvars[j].value)

\* The line under the scanner's cursor, stripped.
CursorLine == Strip(srcLines[scan.i + 1])

\* A line that is neither blank nor a comment and contains "=".
IsAssignmentLine(raw) == ~IsCommentOrBlank(Strip(raw)) /\ Contains(Strip(raw), "=")

\* C9: when parse_tfvars returns, every assignment line that the continuation
\* loop of a multi-line value did not take has its key in the result, the line
\* right after the closing bracket line included.
EveryAssignmentOutsideBracketsParsed ==
  (pc = "scan" /\ scan.mode = "done") =>
    \A j \in 1..Len(srcLines) :
      (IsAssignmentLine(srcLines[j]) /\ (j - 1) \notin scan.used)
        => LineKey(Strip(srcLines[j])) \in DictKeys(scan.variables)

\* C10: a step in which the scanner reads a blank or comment line, at the top
\* level or inside the continuation loop, adds nothing to the collected value,
\* stores no record and leaves the bracket counter alone.
CommentLinesAreInert ==
  [][(/\ pc = "scan"
      /\ scan.i < Len(srcLines)
      /\ scan.mode = "idle" \/ (scan.mode = "cont" /\ scan.bracket_count > 0)
      /\ IsCommentOrBlank(CursorLine))
       => /\ scan'.variables = scan.variables
          /\ scan'.multi_value = scan.multi_value
          /\ scan'.bracket_count = scan.bracket_count]_vars

\* The tags of the values parse_value may return.
ValueTags == {"Str", "Int", "Float", "Bool", "Null", "List"}

\* Rule 1: the text trimmed, one trailing comma removed, trimmed again.
Trimmed(s) ==
  IF EndsWith(Strip(s), <<",">>) THEN Strip(SubSeq(Strip(s), 1, Len(Strip(s)) - 1)) ELSE Strip(s)

MatchesBool(t) == Lower(t) = <<"t","r","u","e">> \/ Lower(t) = <<"f","a","l","s","e">>

MatchesNull(t) == Lower(t) = <<"n","u","l","l">>

MatchesQuoted(t) == StartsWith(t, <<"\"">>) /\ EndsWith(t, <<"\"">>)

\* The numeric parse succeeds: float() for a text with a point, int() otherwise.
MatchesNumber(t) == IF Contains(t, ".") THEN IsFloatText(t) ELSE IsIntText(t)

MatchesList(t) == StartsWith(t, <<"[">>) /\ EndsWith(t, <<"]">>)

IsNonEmptyText(s) == s # << >>

\* The trimmed, non-empty pieces between the commas of a list's interior.
ListItemTexts(t) ==
  LET pieces == Split(Strip(Inner(t)), ",")
  IN  SelectSeq([j \in 1..Len(pieces) |-> Strip(pieces[j])], IsNonEmptyText)

\* The value r is what the ordered rules give for the text s.
RECURSIVE Conforms(_, _)
Conforms(r, s) ==
  LET t == Trimmed(s)
  IN  IF MatchesBool(t) THEN r.tag = "Bool" /\ r.v = (Lower(t) = <<"t","r","u","e">>)
      ELSE IF MatchesNull(t) THEN r.tag = "Null"
      ELSE IF MatchesQuoted(t) THEN r.tag = "Str" /\ r.v = Inner(t)
      ELSE IF MatchesNumber(t)
           THEN IF Contains(t, ".")
                THEN r.tag = "Float" /\ r.v = FloatRepr(t)
                ELSE r.tag = "Int" /\ r.v = IntOf(t)
      ELSE IF MatchesList(t)
           THEN /\ r.tag = "List"
                /\ Len(r.v) = Len(ListItemTexts(t))
                /\ \A j \in 1..Len(r.v) : Conforms(r.v[j], ListItemTexts(t)[j])
      ELSE r.tag = "Str" /\ r.v = t

PriorEnv ==
  IF overwrite \/ ~destBefore.exists THEN EmptyEnv
  ELSE read_env_file(destBefore.exists, destBefore.lines)

\* The destination key and formatted value of every source variable, in order.
Targets == [j \in 1..Len(tfvars) |-> [key |-> TargetKey(j), value |-> TargetValue(j)]]

\* Positions before j whose destination key is that of position j.
EarlierSame(targets, j) == {i \in 1..(j - 1) : targets[i].key = targets[j].key}

\* Position j finds its destination key present with a different value: the
\* value an earlier variable of the run just inserted, or else the prior one.
CountsAsUpdated(prior, targets, j) ==
  IF EarlierSame(targets, j) # {}
  THEN targets[MaxOf(EarlierSame(targets, j))].value # targets[j].value
  ELSE targets[j].key \in DOMAIN prior /\ prior[targets[j].key] # targets[j].value

\* Position j finds its destination key absent.
CountsAsNew(prior, targets, j) ==
  EarlierSame(targets, j) = {} /\ targets[j].key \notin DOMAIN prior

\* The last position that maps to the destination key.
LastOf(targets, key) == MaxOf({j \in 1..Len(targets) : targets[j].key = key})

\* C12: after every successful run totalCount is the number of keys read from the
\* destination as it was (0 when overwrite=true or the file is missing) plus
\* newCount, and newCount + updatedCount is at most the number of variables parsed
\* from the source; also when source keys collapse to one destination key: the
\* first is counted against the prior map, a later one against the value just
\* inserted, and the last one's value is the one written.
CounterConservation ==
  RunOk =>
    LET prior == PriorEnv
        targets == Targets
    IN  /\ summary.total = Cardinality(DOMAIN prior) + summary.new
        /\ summary.new + summary.updated <= Len(tfvars)
        /\ summary.new = Cardinality({j \in 1..Len(targets) : CountsAsNew(prior, targets, j)})
        /\ summary.updated =
             Cardinality({j \in 1..Len(targets) : CountsAsUpdated(prior, targets, j)})
        /\ \A j \in 1..Len(targets) :
             LET line == EntryLine(targets[j].key, targets[LastOf(targets, targets[j].key)].value)
             IN  Cardinality({i \in 1..Len(destLines) :
                                IsDestEntry(destLines[i])
                                /\ EntryKeyOf(destLines[i]) = targets[j].key}) = 1
                 /\ \E i \in 1..Len(destLines) : destLines[i] = line

\* C12 witness: a merging run over a destination that had the key REGION, with the
\* source keys Region and region collapsing to it: both counted as updates,
\* nothing new, one key in total, and the later one's value written.
CollapsedKeysCounted ==
  /\ RunOk
  /\ ~overwrite
  /\ DOMAIN PriorEnv = {<<"R","E","G","I","O","N">>}
  /\ Len(tfvars) = 2
  /\ SourceTargets = {<<"R","E","G","I","O","N">>}
  /\ EarlierSame(Targets, 2) = {1}
  /\ summary = [new |-> 0, updated |-> 2, total |-> 1]
  /\ \E j \in 1..Len(destLines) : destLines[j] = EntryLine(<<"R","E","G","I","O","N">>, TargetValue(2))

=============================================================================
